---- MODULE Spec2Model ----
(***************************************************************************)
(* The research pipeline of backend/app/agents: the LangGraph state graph  *)
(* built by build_research_graph, the nine nodes of ResearchNodes, and the *)
(* ResearchTools / AzureOpenAIClient helpers the nodes call.  One run of   *)
(* run_research is modelled: the variables are the keys of ResearchState,  *)
(* pc is the node the graph executes next, and every adapter call (search, *)
(* scrape, chat completion) answers with a value drawn from a small set or *)
(* raises.                                                                 *)
(***************************************************************************)
EXTENDS Integers, Sequences, FiniteSets, TLC

\* ---------------------------------------------------------------- bounds
MaxCap == 1
MaxWeb == 3

\* ------------------------------------------------------ program constants
MinReportLen == 500
MinWebSources == 3
MinThreadComments == 10
MinExpertScore == 10
MinExpertBody == 100
MaxScrapeUrls == 10
MaxThreadUrls == 5
MaxDiscovered == 5

VARIABLES
    pc,                  \* node the graph runs next, "end" or "raised"
    config,              \* research_config
    iteration,
    research_complete,
    errors,
    search_keywords,
    relevant_subreddits,
    web_results,
    reddit_posts,
    reddit_comments,
    scraped_web_content,
    reddit_threads,
    web_summaries,
    reddit_summaries,
    community_consensus,
    expert_opinions,
    cross_reference,
    corroborated_facts,
    contradictions,
    final_synthesis,     \* length of the report text
    sources,
    confidence_scores,
    refinement_queries,
    rounds,              \* executions of multi_source_searcher so far
    steps,               \* node executions so far
    errors_at_search,    \* len(errors) when the latest search batch started
    search_tasks,        \* the tasks of the latest search batch
    search_results,      \* what asyncio.gather returned for them
    web_query,           \* the query of the latest web_search call
    reasoning_calls,     \* completions consensus_builder issued in the step just taken
    reasoning_reply,     \* kind of reply the latest consensus or cross-reference
                         \* completion got, "none" when the stage issued none
    raised_by,           \* node whose exception reached run_research
    entry,               \* the entry path that started the run
    connected,           \* the websocket client has not closed the connection
    steps_at_disconnect, \* steps when the client closed the connection, -1 before
    batch,               \* the fan-out batch a stage is awaiting: the step it
                         \* was launched at, its operations, those still running
    scraper,             \* a scraping pass taken alone: the lists it selects
                         \* from, the URLs selected, the pages fetched so far
    sent,                \* messages sent on the websocket, in order
    response,            \* what create_research or the command line delivered
    session              \* the record stored in research_sessions for this run

vars == << pc, config, iteration, research_complete, errors, search_keywords,
           relevant_subreddits, web_results, reddit_posts, reddit_comments,
           scraped_web_content, reddit_threads, web_summaries, reddit_summaries,
           community_consensus, expert_opinions, cross_reference,
           corroborated_facts, contradictions, final_synthesis, sources,
           confidence_scores, refinement_queries,
           rounds, steps, errors_at_search, search_tasks, search_results,
           web_query, reasoning_calls, reasoning_reply, raised_by,
           entry, connected, steps_at_disconnect, batch, scraper,
           sent, response, session >>

\* ------------------------------------------------------------ values
query == "q"

\* What an awaited call hands back: a value, or the exception it raised.
Ok(v) == [tag |-> "ok", val |-> v]
Exc == [tag |-> "exc", val |-> <<>>]

\* A chat completion's text, by what json.loads makes of it.
NotJson == [tag |-> "text", val |-> <<>>]
JsonDict(d) == [tag |-> "dict", val |-> d]
JsonList(l) == [tag |-> "list", val |-> l]

\* {}
EmptyDict == <<>>

\* A Python value that is a list, or a dict, where a variable can hold either.
ListVal(l) == [tag |-> "list", val |-> l]
DictVal(d) == [tag |-> "dict", val |-> d]

\* The configurations a run is started with; subreddits are only given with
\* include_reddit.
Configs ==
    { c \in [max_iterations : 1..MaxCap,
             include_reddit : BOOLEAN,
             subreddits : {<<>>, <<"cfgsub">>}] :
        c.subreddits # <<>> => c.include_reddit }

Take(s, n) == SubSeq(s, 1, IF Len(s) < n THEN Len(s) ELSE n)

\* The result lists asyncio.gather(*tasks, return_exceptions=True) can hand
\* back: one outcome per task, in task order.
RECURSIVE GatherOutcomes(_)
GatherOutcomes(outcomes) ==
    IF outcomes = <<>> THEN { <<>> }
    ELSE { <<h>> \o t : h \in Head(outcomes), t \in GatherOutcomes(Tail(outcomes)) }


\* ------------------------------------------------------------ run_research
\* The state run_research and stream_research start the graph with.
initial_state ==
    /\ iteration = 0
    /\ research_complete = FALSE
    /\ errors = <<>>
    /\ search_keywords = <<>>
    /\ relevant_subreddits = <<>>
    /\ web_results = <<>>
    /\ reddit_posts = <<>>
    /\ reddit_comments = <<>>
    /\ scraped_web_content = ListVal(<<>>)
    /\ reddit_threads = <<>>
    /\ web_summaries = <<>>
    /\ reddit_summaries = <<>>
    /\ community_consensus = EmptyDict
    /\ expert_opinions = <<>>
    /\ cross_reference = EmptyDict
    /\ corroborated_facts = <<>>
    /\ contradictions = <<>>
    /\ final_synthesis = 0
    /\ sources = <<>>
    /\ confidence_scores = EmptyDict
    /\ refinement_queries = <<>>
    /\ rounds = 0
    /\ steps = 0
    /\ errors_at_search = 0
    /\ search_tasks = <<>>
    /\ search_results = <<>>
    /\ web_query = "none"
    /\ reasoning_calls = [consensus |-> 0, expert |-> 0]
    /\ reasoning_reply = "none"
    /\ raised_by = "none"

\* No batch has been launched.
NoBatch == [at |-> -1, launched |-> 0, running |-> 0]

\* No scraping pass is looked at on its own.
NoScrape ==
    [phase |-> "idle", web_results |-> <<>>, reddit_posts |-> <<>>,
     web_urls |-> <<>>, reddit_urls |-> <<>>, results |-> <<>>]

\* What lies outside the graph's state: the caller's side of the run, and the
\* operations a stage has in flight.
ApiState ==
    << entry, connected, steps_at_disconnect, batch, scraper, sent, response,
       session >>

\* A direct call of run_research with a configuration that passed validation.
Init ==
    /\ pc = "query_planner"
    /\ config \in Configs
    /\ initial_state
    /\ entry = "run_research"
    /\ connected = TRUE
    /\ steps_at_disconnect = -1
    /\ batch = NoBatch
    /\ scraper = NoScrape
    /\ sent = <<>>
    /\ response = EmptyDict
    /\ session = EmptyDict

\* Leaving a node: one more graph step.
Stepped == steps' = steps + 1

\* An exception leaves the node and the graph and reaches run_research's caller.
Raised(node) ==
    /\ pc' = "raised"
    /\ raised_by' = node
    /\ Stepped

SearchState == << web_results, reddit_posts, reddit_comments, web_query, rounds,
                  errors_at_search >>
\* The locals of the latest search batch, gone once the next node has run.
SearchBatch == << search_tasks, search_results >>
ScrapeState == << scraped_web_content, reddit_threads >>
SummaryState == << web_summaries, reddit_summaries >>
ConsensusState == << community_consensus, expert_opinions >>
CrossRefState == << cross_reference, corroborated_facts, contradictions >>
SynthesisState == << final_synthesis, sources, confidence_scores >>
PlanState == << search_keywords, relevant_subreddits >>
ControlState == << config, iteration, research_complete, errors >>

\* ------------------------------------------------------------ query_planner
PlanResponses ==
    { Exc, NotJson, JsonList(<<>>),
      JsonDict([search_keywords |-> <<"kw">>, suggested_subreddits |-> <<>>]) }

\* The plan used when the completion's text is not JSON.
FallbackPlan(cfg) ==
    [search_keywords |-> <<query>>, suggested_subreddits |-> cfg.subreddits]

ResearchPlan(resp, cfg) == IF resp.tag = "text" THEN FallbackPlan(cfg) ELSE resp.val

\* config.get("subreddits") or research_plan.get("suggested_subreddits", [])
PlannedSubreddits(cfg, plan) ==
    IF cfg.subreddits # <<>> THEN cfg.subreddits ELSE plan.suggested_subreddits

PlannerIteration(it) == it

query_planner ==
    /\ pc = "query_planner"
    /\ UNCHANGED ApiState
    /\ \E resp \in PlanResponses :
        /\ IF resp.tag \in {"exc", "list"}
           THEN /\ Raised("query_planner")
                /\ UNCHANGED << PlanState, iteration >>
           ELSE /\ search_keywords' = ResearchPlan(resp, config).search_keywords
                /\ relevant_subreddits' =
                       PlannedSubreddits(config, ResearchPlan(resp, config))
                /\ iteration' = PlannerIteration(iteration)
                /\ pc' = "multi_source_searcher"
                /\ Stepped
                /\ UNCHANGED raised_by
    /\ UNCHANGED << reasoning_calls, reasoning_reply, SearchBatch, config, research_complete, errors, SearchState, ScrapeState,
                    SummaryState, ConsensusState, CrossRefState, SynthesisState,
                    refinement_queries >>

\* ---------------------------------------------------- multi_source_searcher
WebSearchResults == { <<>>, [i \in 1..MaxWeb |-> [url |-> i]] }

HotPost == [url |-> 101, num_comments |-> MinThreadComments + 1]

\* YARSRedditClient.search_posts: with subreddits, each is searched in turn and
\* what it yields is appended, so a subreddit named twice yields its posts
\* twice; without, Reddit is searched once. Either search answers [] on an
\* error.
PostsFound(subreddits) ==
    IF subreddits = <<>> THEN <<HotPost>>
    ELSE [i \in DOMAIN subreddits |-> HotPost]

PostSearchResults(subreddits) == { <<>>, PostsFound(subreddits) }

LowComment == [score |-> MinExpertScore, body |-> MinExpertBody + 1]
HighComment == [score |-> MinExpertScore + 1, body |-> MinExpertBody + 1]
CommentSearchResults == { <<>>, <<LowComment>>, <<HighComment>> }

DiscoverResults == { <<>>, <<[name |-> "found"]>> }

\* Variant of SearchTasks that discovers subreddits in every round with Reddit
\* enabled, whether or not there are subreddits to search.
SearchTasksAlwaysDiscovering(include_reddit, subreddits) ==
    <<"web_search">> \o
    (IF include_reddit
     THEN <<"reddit_post_search", "reddit_comment_search", "discover_subreddits">>
     ELSE <<"sleep", "sleep", "sleep">>)

\* The coroutines handed to asyncio.gather, in order.
SearchTasks(include_reddit, subreddits) ==
    <<"web_search">> \o
    (IF include_reddit
     THEN <<"reddit_post_search", "reddit_comment_search">> \o
          (IF subreddits = <<>> THEN <<"discover_subreddits">> ELSE <<>>)
     ELSE <<"sleep", "sleep", "sleep">>)

TaskOutcomes(task, subreddits) ==
    CASE task = "web_search" -> {Exc} \cup {Ok(r) : r \in WebSearchResults}
      [] task = "reddit_post_search" ->
             {Exc} \cup {Ok(r) : r \in PostSearchResults(subreddits)}
      [] task = "reddit_comment_search" -> {Exc} \cup {Ok(r) : r \in CommentSearchResults}
      [] task = "discover_subreddits" -> {Exc} \cup {Ok(r) : r \in DiscoverResults}
      [] OTHER -> {Ok(<<>>)}

\* asyncio.gather(*tasks, return_exceptions=True): one entry per task, in order.
Gather(tasks, subreddits) ==
    GatherOutcomes([i \in DOMAIN tasks |-> TaskOutcomes(tasks[i], subreddits)])

\* Variant of Slot with the length test off by one: the last launched
\* operation's result is dropped.
SlotDroppingLast(results, i) ==
    IF Len(results) > i /\ results[i].tag # "exc" THEN results[i].val ELSE <<>>

\* results[i] if len(results) > i and not isinstance(results[i], Exception) else []
\* (i counts from 1 here)
Slot(results, i) ==
    IF Len(results) >= i /\ results[i].tag # "exc" THEN results[i].val ELSE <<>>

PrimaryKeyword(keywords) == IF keywords # <<>> THEN keywords[1] ELSE query

SubredditNames(discovered) ==
    [i \in 1..Len(Take(discovered, MaxDiscovered)) |-> discovered[i].name]

multi_source_searcher ==
    /\ pc = "multi_source_searcher"
    /\ UNCHANGED ApiState
    /\ LET tasks == SearchTasks(config.include_reddit, relevant_subreddits) IN
       \E results \in Gather(tasks, relevant_subreddits) :
        /\ errors_at_search' = Len(errors)
        /\ search_tasks' = tasks
        /\ search_results' = results
        /\ web_query' = PrimaryKeyword(search_keywords)
        /\ web_results' = Slot(results, 1)
        /\ reddit_posts' = Slot(results, 2)
        /\ reddit_comments' = Slot(results, 3)
        /\ relevant_subreddits' =
               IF Slot(results, 4) # <<>> /\ relevant_subreddits = <<>>
               THEN SubredditNames(Slot(results, 4))
               ELSE relevant_subreddits
    /\ rounds' = rounds + 1
    /\ pc' = "content_scraper"
    /\ Stepped
    /\ UNCHANGED << reasoning_calls, reasoning_reply, ControlState, search_keywords, ScrapeState, SummaryState,
                    ConsensusState, CrossRefState, SynthesisState,
                    refinement_queries, raised_by >>

\* ---------------------------------------------------------- content_scraper
Page(u, c, ok) == [url |-> u, content |-> c, success |-> ok]

\* WebScraper.scrape_multiple: one record per URL, in order; a fetch that failed
\* has success = False and no content, and a page without text is a success
\* with empty content. In the runs explored only the first page may be either.
ScrapeMultiple(urls) ==
    { [i \in DOMAIN urls |-> Page(urls[i], 1, TRUE)],
      [i \in DOMAIN urls |-> IF i = 1 THEN Page(urls[i], 0, FALSE)
                                      ELSE Page(urls[i], 1, TRUE)],
      [i \in DOMAIN urls |-> IF i = 1 THEN Page(urls[i], 0, TRUE)
                                      ELSE Page(urls[i], 1, TRUE)] }

Succeeded(r) == r.success

\* ResearchTools.scrape_urls
scrape_urls(urls) ==
    {Exc} \cup {ListVal(SelectSeq(r, Succeeded)) : r \in ScrapeMultiple(urls)}

NoPost == [url |-> 0]
Thread(p) == [post |-> p, total_comments |-> IF p = NoPost THEN 0 ELSE 1]

\* ResearchTools.analyze_reddit_thread
analyze_reddit_thread(url) ==
    { Exc, DictVal(Thread(NoPost)), DictVal(Thread([url |-> url])) }

HasUrl(r) == r.url # 0
Eligible(p) == p.url # 0 /\ p.num_comments > MinThreadComments

Urls(items) == [i \in DOMAIN items |-> items[i].url]

\* Variant of WebUrls without the cut at ten results.
WebUrlsUncapped(results) == Urls(SelectSeq(results, HasUrl))

WebUrls(results) == Urls(SelectSeq(Take(results, MaxScrapeUrls), HasUrl))
RedditUrls(posts) == Urls(SelectSeq(Take(posts, MaxThreadUrls), Eligible))

\* The coroutines of the scraping batch: scrape_urls when there is a web URL,
\* then one thread fetch per eligible post.
ScrapeTasks(web_urls, reddit_urls) ==
    (IF web_urls # <<>> THEN <<[op |-> "scrape_urls", arg |-> web_urls]>> ELSE <<>>)
    \o [i \in DOMAIN reddit_urls |-> [op |-> "thread", arg |-> reddit_urls[i]]]

ScrapeOutcomes(task) ==
    IF task.op = "scrape_urls" THEN scrape_urls(task.arg)
    ELSE analyze_reddit_thread(task.arg)

GatherScrape(tasks) ==
    GatherOutcomes([i \in DOMAIN tasks |-> ScrapeOutcomes(tasks[i])])

\* results[0] if results and not isinstance(results[0], Exception) else []
ScrapedWeb(results) ==
    IF results # <<>> /\ results[1].tag # "exc" THEN results[1] ELSE ListVal(<<>>)

HasPost(r) == r.tag # "exc" /\ r.tag = "dict" /\ r.val.post # NoPost

\* [r for r in results[1:] if not isinstance(r, Exception) and r.get("post")]
RedditThreads(results) ==
    LET kept == SelectSeq(Tail(results), HasPost)
    IN [i \in DOMAIN kept |-> kept[i].val]

content_scraper ==
    /\ pc = "content_scraper"
    /\ UNCHANGED ApiState
    /\ LET tasks == ScrapeTasks(WebUrls(web_results), RedditUrls(reddit_posts)) IN
       \E results \in GatherScrape(tasks) :
        /\ scraped_web_content' = ScrapedWeb(results)
        /\ reddit_threads' = IF results = <<>> THEN <<>> ELSE RedditThreads(results)
    /\ search_tasks' = <<>>
    /\ search_results' = <<>>
    /\ pc' = "content_analyzer"
    /\ Stepped
    /\ UNCHANGED << reasoning_calls, reasoning_reply, ControlState, PlanState, SearchState, SummaryState,
                    ConsensusState, CrossRefState, SynthesisState,
                    refinement_queries, raised_by >>

\* --------------------------------------------------------- content_analyzer
HasContent(c) == c.content # 0

\* ResearchTools.summarize_content: the completion's text, or its exception.
\* The text is identified by the item it summarizes.
summarize_content(item) == { Exc, Ok(item) }

\* The scraped items that get a summarization task, in order.
WebSummaryInputs(scraped_web) ==
    Urls(SelectSeq(scraped_web, HasContent))

RedditSummaryInputs(threads) == [i \in DOMAIN threads |-> threads[i].post.url]

\* asyncio.gather over the summarization tasks; in the runs explored only the
\* first task of a batch may raise.
GatherSummaries(inputs) ==
    GatherOutcomes([i \in DOMAIN inputs |->
                       { r \in summarize_content(inputs[i]) : i > 1 => r.tag = "ok" }])

\* The web summary built for summaries[i]: its title and url are read from
\* scraped_web[i].
WebSummary(scraped_web, summary, i) ==
    [url |-> scraped_web[i].url, summary |-> summary, source_type |-> "web"]

RedditSummary(threads, summary, idx) ==
    [url |-> threads[idx].post.url, summary |-> summary, source_type |-> "reddit"]

\* Variant of WebSummaries that gives up at the first failed call.
RECURSIVE WebSummariesUntilFailure(_, _, _, _)
WebSummariesUntilFailure(scraped_web, summaries, web_count, i) ==
    IF i > web_count \/ summaries[i].tag = "exc" THEN <<>>
    ELSE <<WebSummary(scraped_web, summaries[i].val, i)>>
         \o WebSummariesUntilFailure(scraped_web, summaries, web_count, i + 1)

RECURSIVE WebSummaries(_, _, _, _)
WebSummaries(scraped_web, summaries, web_count, i) ==
    IF i > web_count THEN <<>>
    ELSE (IF summaries[i].tag = "exc" THEN <<>>
          ELSE <<WebSummary(scraped_web, summaries[i].val, i)>>)
         \o WebSummaries(scraped_web, summaries, web_count, i + 1)

RECURSIVE RedditSummaries(_, _, _, _)
RedditSummaries(threads, summaries, web_count, i) ==
    IF i > Len(summaries) THEN <<>>
    ELSE (IF summaries[i].tag = "exc" \/ i - web_count > Len(threads) THEN <<>>
          ELSE <<RedditSummary(threads, summaries[i].val, i - web_count)>>)
         \o RedditSummaries(threads, summaries, web_count, i + 1)

\* Variant of NoSummaries that leaves the list as the earlier round left it.
KeptSummaries(earlier) == earlier

\* state["web_summaries"] = [] and state["reddit_summaries"] = [] when there
\* is no summarization task.
NoSummaries(earlier) == <<>>

content_analyzer ==
    /\ pc = "content_analyzer"
    /\ UNCHANGED ApiState
    /\ IF scraped_web_content.tag = "dict"
       THEN \* iterating a dict yields its keys, and str has no .get
            /\ Raised("content_analyzer")
            /\ UNCHANGED SummaryState
       ELSE LET scraped_web == scraped_web_content.val
                web_inputs == WebSummaryInputs(scraped_web)
                all_tasks == web_inputs \o RedditSummaryInputs(reddit_threads)
            IN  /\ IF all_tasks = <<>>
                   THEN \* if not all_tasks: nothing is gathered
                        /\ web_summaries' = NoSummaries(web_summaries)
                        /\ reddit_summaries' = NoSummaries(reddit_summaries)
                   ELSE \E summaries \in GatherSummaries(all_tasks) :
                        /\ web_summaries' =
                               WebSummaries(scraped_web, summaries, Len(web_inputs), 1)
                        /\ reddit_summaries' =
                               RedditSummaries(reddit_threads, summaries,
                                               Len(web_inputs), Len(web_inputs) + 1)
                /\ pc' = "consensus_builder"
                /\ Stepped
                /\ UNCHANGED raised_by
    /\ UNCHANGED << reasoning_calls, reasoning_reply, SearchBatch, ControlState, PlanState, SearchState, ScrapeState,
                    ConsensusState, CrossRefState, SynthesisState,
                    refinement_queries >>

\* -------------------------------------------------------- consensus_builder
\* The record consensus_builder stores itself when there is nothing to analyse.
NodeDefaultConsensus ==
    [sentiment |-> "neutral", agreement_level |-> "unknown", themes |-> <<>>]

\* ResearchTools.build_consensus without summaries.
EmptyConsensus ==
    [sentiment |-> "neutral", agreement_level |-> "unknown", themes |-> <<>>,
     majority_opinion |-> "", minority_opinions |-> <<>>]

\* ResearchTools.build_consensus when the completion is not JSON.
UnparsedConsensus ==
    [sentiment |-> "neutral", agreement_level |-> "unknown", themes |-> <<>>,
     majority_opinion |-> "Unable to determine consensus", minority_opinions |-> <<>>]

ParsedConsensus ==
    [sentiment |-> "mixed", agreement_level |-> "high", themes |-> <<"theme">>,
     majority_opinion |-> "yes", minority_opinions |-> <<"no">>]

ConsensusResponses == { Exc, NotJson, JsonList(<<>>), JsonDict(ParsedConsensus) }

\* Variant of ConsensusCallIssued without the empty-list return.
ConsensusCallAlways(summaries) == TRUE

\* build_consensus issues its completion only past the empty-list return.
ConsensusCallIssued(summaries) == summaries # <<>>

\* What build_consensus returns (a JSON value that is no dict is returned as is).
build_consensus(summaries, resp) ==
    IF ~ConsensusCallIssued(summaries) THEN DictVal(EmptyConsensus)
    ELSE IF resp.tag = "text" THEN DictVal(UnparsedConsensus)
    ELSE resp

\* AzureOpenAIClient.extract_expert_opinions
HighValue(c) == c.score > MinExpertScore /\ c.body > MinExpertBody

ExpertCallIssued(comments) == SelectSeq(comments, HighValue) # <<>>

ExpertResponses == { Exc, JsonList(<<"insight">>) }

extract_expert_opinions(comments, resp) ==
    IF ~ExpertCallIssued(comments) THEN <<>>
    ELSE IF resp.tag = "list" THEN resp.val
    ELSE <<>>

\* The early return of consensus_builder.
NothingToAnalyse(summaries, comments) == summaries = <<>> /\ comments = <<>>

consensus_builder ==
    /\ pc = "consensus_builder"
    /\ UNCHANGED ApiState
    /\ IF NothingToAnalyse(reddit_summaries, reddit_comments)
       THEN /\ community_consensus' = NodeDefaultConsensus
            /\ reasoning_calls' = [consensus |-> 0, expert |-> 0]
            /\ reasoning_reply' = "none"
            /\ pc' = "cross_reference"
            /\ Stepped
            /\ UNCHANGED << expert_opinions, raised_by >>
       ELSE LET ccall == ConsensusCallIssued(reddit_summaries)
                ecall == ExpertCallIssued(reddit_comments)
            IN
            \E cresp \in IF ccall THEN ConsensusResponses ELSE {NotJson},
               eresp \in IF ecall THEN ExpertResponses ELSE {NotJson} :
            LET consensus == build_consensus(reddit_summaries, cresp)
            IN  /\ reasoning_reply' = (IF ccall THEN cresp.tag ELSE "none")
                /\ IF ccall /\ cresp.tag = "exc"
                   THEN \* build_consensus raises: the expert call is never made
                        /\ reasoning_calls' = [consensus |-> 1, expert |-> 0]
                        /\ Raised("consensus_builder")
                        /\ UNCHANGED << community_consensus, expert_opinions >>
                   ELSE /\ reasoning_calls' =
                               [consensus |-> IF ccall THEN 1 ELSE 0,
                                expert |-> IF ecall THEN 1 ELSE 0]
                        /\ IF (ecall /\ eresp.tag = "exc") \/ consensus.tag # "dict"
                           THEN \* the expert call raises, or consensus.get(...)
                                \* is called on a list
                                /\ Raised("consensus_builder")
                                /\ UNCHANGED << community_consensus, expert_opinions >>
                           ELSE /\ community_consensus' = consensus.val
                                /\ expert_opinions' =
                                       extract_expert_opinions(reddit_comments, eresp)
                                /\ pc' = "cross_reference"
                                /\ Stepped
                                /\ UNCHANGED raised_by
    /\ UNCHANGED << SearchBatch, ControlState, PlanState, SearchState, ScrapeState,
                    SummaryState, CrossRefState, SynthesisState,
                    refinement_queries >>

\* ------------------------------------------------ cross_reference_validator
UnparsedCrossRef ==
    [corroborated_facts |-> <<>>, contradictions |-> <<>>,
     unique_insights |-> <<>>, overall_confidence |-> "medium"]

ParsedCrossRef ==
    [corroborated_facts |-> <<"fact">>, contradictions |-> <<"conflict">>,
     unique_insights |-> <<>>, overall_confidence |-> "high"]

CrossRefResponses == { Exc, NotJson, JsonList(<<>>), JsonDict(ParsedCrossRef) }

\* ResearchTools.cross_reference
cross_reference_tool(resp) ==
    IF resp.tag = "text" THEN DictVal(UnparsedCrossRef) ELSE resp

NothingToCrossReference(web, reddit) == web = <<>> /\ reddit = <<>>

cross_reference_validator ==
    /\ pc = "cross_reference"
    /\ UNCHANGED ApiState
    /\ reasoning_calls' = [consensus |-> 0, expert |-> 0]
    /\ IF NothingToCrossReference(web_summaries, reddit_summaries)
       THEN /\ cross_reference' = EmptyDict
            /\ reasoning_reply' = "none"
            /\ pc' = "synthesis"
            /\ Stepped
            /\ UNCHANGED << corroborated_facts, contradictions, raised_by >>
       ELSE \E resp \in CrossRefResponses :
            /\ reasoning_reply' = resp.tag
            /\ IF cross_reference_tool(resp).tag # "dict"
               THEN /\ Raised("cross_reference")
                    /\ UNCHANGED CrossRefState
               ELSE /\ cross_reference' = cross_reference_tool(resp).val
                    /\ corroborated_facts' =
                           cross_reference_tool(resp).val.corroborated_facts
                    /\ contradictions' =
                           cross_reference_tool(resp).val.contradictions
                    /\ pc' = "synthesis"
                    /\ Stepped
                    /\ UNCHANGED raised_by
    /\ UNCHANGED << SearchBatch, ControlState, PlanState, SearchState, ScrapeState,
                    SummaryState, ConsensusState, SynthesisState,
                    refinement_queries >>

\* ------------------------------------------------------ synthesis_generator
\* Lengths of the report text the completion returns: at the threshold of
\* quality_checker and just above it.
\* Lengths of the text the synthesis completion returns; 0 is the empty string.
ReportLengths == { 0, MinReportLen, MinReportLen + 1 }

SynthesisResponses == {Exc} \cup {Ok(n) : n \in ReportLengths}

Source(s) == [type |-> s.source_type, url |-> s.url]

\* The citation list: web summaries first, then reddit summaries.
Sources(web, reddit) ==
    [i \in DOMAIN web |-> Source(web[i])] \o [i \in DOMAIN reddit |-> Source(reddit[i])]

\* cross_ref.get("overall_confidence", "medium")
OverallConfidence(cross_ref) ==
    IF cross_ref = EmptyDict THEN "medium" ELSE cross_ref.overall_confidence

\* state["confidence_scores"]
ConfidenceScores(cross_ref, web, reddit, corroborated) ==
    [overall |-> OverallConfidence(cross_ref),
     web_sources |-> Len(web),
     reddit_sources |-> Len(reddit),
     corroboration |-> Len(corroborated)]

synthesis_generator ==
    /\ pc = "synthesis"
    /\ UNCHANGED ApiState
    /\ \E resp \in SynthesisResponses :
        /\ IF resp.tag = "exc"
           THEN /\ Raised("synthesis")
                /\ UNCHANGED SynthesisState
           ELSE /\ final_synthesis' = resp.val
                /\ sources' = Sources(web_summaries, reddit_summaries)
                /\ confidence_scores' =
                       ConfidenceScores(cross_reference, web_summaries,
                                        reddit_summaries, corroborated_facts)
                /\ pc' = "quality_checker"
                /\ Stepped
                /\ UNCHANGED raised_by
    /\ UNCHANGED << reasoning_calls, reasoning_reply, SearchBatch, ControlState, PlanState, SearchState, ScrapeState,
                    SummaryState, ConsensusState, CrossRefState,
                    refinement_queries >>

\* ---------------------------------------------------------- quality_checker
\* Variant of QualityComplete accepting a report of exactly the minimum length.
QualityCompleteInclusive(it, max_it, web, reddit, synthesis) ==
    LET has_sufficient_sources == Len(web) >= MinWebSources
        has_diverse_sources == Len(web) > 0 /\ Len(reddit) > 0
        has_content == synthesis >= MinReportLen
    IN  IF it >= max_it THEN TRUE
        ELSE IF has_sufficient_sources /\ has_diverse_sources /\ has_content THEN TRUE
        ELSE FALSE

\* Variant of QualityComplete that asks for web summaries only.
QualityCompleteWebOnly(it, max_it, web, reddit, synthesis) ==
    LET has_sufficient_sources == Len(web) >= MinWebSources
        has_content == synthesis > MinReportLen
    IN  IF it >= max_it THEN TRUE
        ELSE IF has_sufficient_sources /\ has_content THEN TRUE
        ELSE FALSE

\* The value quality_checker gives research_complete.
QualityComplete(it, max_it, web, reddit, synthesis) ==
    LET has_sufficient_sources == Len(web) >= MinWebSources
        has_diverse_sources == Len(web) > 0 /\ Len(reddit) > 0
        has_content == synthesis > MinReportLen
    IN  IF it >= max_it THEN TRUE
        ELSE IF has_sufficient_sources /\ has_diverse_sources /\ has_content THEN TRUE
        ELSE FALSE

\* Variant of should_continue_research that ends one iteration early.
should_continue_research_early(is_complete, it, max_it) ==
    IF is_complete THEN "end" ELSE IF it + 1 >= max_it THEN "end" ELSE "continue"

\* Variant of should_continue_research that routes on the counter alone.
should_continue_research_by_cap(is_complete, it, max_it) ==
    IF it >= max_it THEN "end" ELSE "continue"

\* The conditional edge after quality_checker.
should_continue_research(is_complete, it, max_it) ==
    IF is_complete THEN "end"
    ELSE IF it >= max_it THEN "end"
    ELSE "continue"

\* Variant of EdgeTarget that re-enters Retrieval without Gap-Filling.
EdgeTargetSkippingGapFiller(route) ==
    IF route = "end" THEN "end" ELSE "multi_source_searcher"

\* add_conditional_edges: "end" -> END, "continue" -> gap_filler
EdgeTarget(route) == IF route = "end" THEN "end" ELSE "gap_filler"

\* Variant of quality_checker that also advances the iteration counter.
quality_checker_counting ==
    /\ pc = "quality_checker"
    /\ UNCHANGED ApiState
    /\ iteration' = iteration + 1
    /\ research_complete' =
           QualityComplete(iteration, config.max_iterations, web_summaries,
                           reddit_summaries, final_synthesis)
    /\ pc' = EdgeTarget(should_continue_research(research_complete', iteration,
                                                 config.max_iterations))
    /\ Stepped
    /\ UNCHANGED << reasoning_calls, reasoning_reply, SearchBatch, config, errors, PlanState, SearchState, ScrapeState,
                    SummaryState, ConsensusState, CrossRefState, SynthesisState,
                    refinement_queries, raised_by >>

quality_checker ==
    /\ pc = "quality_checker"
    /\ UNCHANGED ApiState
    /\ research_complete' =
           QualityComplete(iteration, config.max_iterations, web_summaries,
                           reddit_summaries, final_synthesis)
    /\ pc' = EdgeTarget(should_continue_research(research_complete', iteration,
                                                 config.max_iterations))
    /\ Stepped
    /\ UNCHANGED << reasoning_calls, reasoning_reply, SearchBatch, config, iteration, errors, PlanState, SearchState, ScrapeState,
                    SummaryState, ConsensusState, CrossRefState, SynthesisState,
                    refinement_queries, raised_by >>

\* --------------------------------------------------------------- gap_filler
GapResponses == { Exc, NotJson, JsonDict(EmptyDict), JsonList(<<"gap">>) }

\* AzureOpenAIClient.analyze_gaps, past the completion
analyze_gaps(resp) == IF resp.tag = "list" THEN resp.val ELSE <<>>

\* Variant of NextIteration stepping by two.
NextIterationByTwo(it) == it + 2

\* state["iteration"] = state.get("iteration", 0) + 1
NextIteration(it) == it + 1

gap_filler ==
    /\ pc = "gap_filler"
    /\ UNCHANGED ApiState
    /\ \E resp \in GapResponses :
        /\ IF resp.tag = "exc"
           THEN /\ Raised("gap_filler")
                /\ UNCHANGED << refinement_queries, iteration >>
           ELSE /\ refinement_queries' = analyze_gaps(resp)
                /\ iteration' = NextIteration(iteration)
                /\ pc' = "multi_source_searcher"
                /\ Stepped
                /\ UNCHANGED raised_by
    /\ UNCHANGED << reasoning_calls, reasoning_reply, SearchBatch, config, research_complete, errors, PlanState, SearchState,
                    ScrapeState, SummaryState, ConsensusState, CrossRefState,
                    SynthesisState >>

Next ==
    \/ query_planner
    \/ multi_source_searcher
    \/ content_scraper
    \/ content_analyzer
    \/ consensus_builder
    \/ cross_reference_validator
    \/ synthesis_generator
    \/ quality_checker
    \/ gap_filler

Spec == Init /\ [][Next]_vars

\* ============================================================ entry paths
\* The HTTP route, the websocket route, the command line and a direct call.
EntryPaths ==
    {"create_research", "websocket_research", "research_cli", "run_research"}

\* ResearchConfig: max_iterations = Field(default=3, ge=1, le=10)
MinIterations == 1
MaxIterations == 10

ResearchConfigValid(c) ==
    c.max_iterations >= MinIterations /\ c.max_iterations <= MaxIterations

\* The configurations a caller may ask for; community search is off in them.
RequestedConfigs ==
    [max_iterations : 0..MaxCap, include_reddit : {FALSE}, subreddits : {<<>>}]

\* Every variable the graph's nodes own, but pc.
GraphState ==
    << ControlState, PlanState, SearchState, SearchBatch, ScrapeState,
       SummaryState, ConsensusState, CrossRefState, SynthesisState,
       refinement_queries, steps, reasoning_calls, reasoning_reply, raised_by >>

\* A request has arrived on one of the entry paths.
ApiInit ==
    /\ pc = "entry"
    /\ entry \in EntryPaths
    /\ config \in RequestedConfigs
    /\ initial_state
    /\ connected = TRUE
    /\ steps_at_disconnect = -1
    /\ batch = NoBatch
    /\ scraper = NoScrape
    /\ sent = <<>>
    /\ response = EmptyDict
    /\ session = EmptyDict

\* Only create_research receives its configuration as a ResearchConfig; the
\* websocket route, the command line and run_research take the dict as given.
receive_request ==
    /\ pc = "entry"
    /\ IF entry = "create_research" /\ ~ResearchConfigValid(config)
       THEN /\ pc' = "rejected"
            /\ response' = [status |-> "invalid"]
            /\ UNCHANGED sent
       ELSE /\ pc' = "query_planner"
            /\ sent' = IF entry = "websocket_research"
                       THEN <<[status |-> "started"]>>
                       ELSE sent
            /\ UNCHANGED response
    /\ UNCHANGED << GraphState, entry, connected, steps_at_disconnect, batch, scraper, session >>

\* final_state.get("final_response", default): no node writes that key, so
\* the default is what is read. Texts are held by their length.
final_response(default) == default

\* len("No response generated"), the command line's default.
NoResponseGenerated == 21

\* ------------------------------------------------------- create_research
\* The HTTP route after run_research returned or raised.
create_research ==
    /\ entry = "create_research"
    /\ \/ /\ pc = "end"
          /\ response' = [status |-> "ok", query |-> query,
                          response |-> final_response(0), sources |-> sources]
          /\ session' = response'
          /\ pc' = "done"
       \/ /\ pc = "raised"
          /\ response' = [status |-> "error", code |-> 500]
          /\ pc' = "failed"
          /\ UNCHANGED session
    /\ UNCHANGED << GraphState, entry, connected, steps_at_disconnect, batch, scraper, sent >>

\* ------------------------------------------------------- refine_research
\* What the run_research call of refine_research comes back with: an
\* exception, or a final state, of which the report's length and the source
\* list are followed.
RefinementRuns ==
    {Exc} \cup { Ok([final_synthesis |-> n, sources |-> srcs]) :
                     n \in {0, MinReportLen + 1},
                     srcs \in { <<>>, <<[type |-> "web", url |-> 1]>> } }

\* POST /api/research/{session_id}/refine on the session this run stored, for
\* as long as the stored source list is short. From then on final_synthesis
\* and sources are those of the refinement run's final state.
refine_research ==
    /\ pc \in {"done", "closed", "refined"}
    /\ session # EmptyDict
    /\ Len(session.sources) <= MaxWeb
    /\ IF "query" \notin DOMAIN session
       THEN \* original_session['query'] raises KeyError
            /\ response' = [status |-> "error", code |-> 500, detail |-> "KeyError"]
            /\ pc' = "refine_failed"
            /\ UNCHANGED << session, final_synthesis, sources >>
       ELSE \E run \in RefinementRuns :
            IF run.tag = "exc"
            THEN /\ response' = [status |-> "error", code |-> 500,
                                 detail |-> "run_research"]
                 /\ pc' = "refine_failed"
                 /\ UNCHANGED << session, final_synthesis, sources >>
            ELSE /\ session' = [session EXCEPT
                                    !.response = final_response(0),
                                    !.sources = @ \o run.val.sources]
                 /\ response' = session'
                 /\ final_synthesis' = run.val.final_synthesis
                 /\ sources' = run.val.sources
                 /\ pc' = "refined"
    /\ UNCHANGED << ControlState, PlanState, SearchState, SearchBatch, ScrapeState,
                    SummaryState, ConsensusState, CrossRefState, confidence_scores,
                    refinement_queries, steps, reasoning_calls, reasoning_reply,
                    raised_by, entry, connected, steps_at_disconnect, batch,
                    scraper, sent >>

\* ------------------------------------------------------------ research.py
\* The command line after run_research returned or raised.
research_cli ==
    /\ entry = "research_cli"
    /\ \/ /\ pc = "end"
          /\ response' = [status |-> "ok",
                          response |-> final_response(NoResponseGenerated),
                          sources |-> Take(sources, 10)]
          /\ pc' = "done"
       \/ /\ pc = "raised"
          /\ response' = [status |-> "error", code |-> 1]
          /\ pc' = "failed"
    /\ UNCHANGED << GraphState, entry, connected, steps_at_disconnect, batch, scraper, sent, session >>

\* ----------------------------------------------------- websocket_research
IsProgress(m) == m.status = "in_progress"

\* Nodes that ran to completion, each yielding one update to astream's consumer.
StagesCompleted == IF pc = "raised" THEN steps - 1 ELSE steps

\* Updates astream has yielded that the route has not yet taken.
Unreported == StagesCompleted - Len(SelectSeq(sent, IsProgress))

\* The node whose update is the latest one yielded.
LastCompleted ==
    CASE pc = "multi_source_searcher" ->
             IF rounds = 0 THEN "query_planner" ELSE "gap_filler"
      [] pc = "content_scraper" -> "multi_source_searcher"
      [] pc = "content_analyzer" -> "content_scraper"
      [] pc = "consensus_builder" -> "content_analyzer"
      [] pc = "cross_reference" -> "consensus_builder"
      [] pc = "synthesis" -> "cross_reference"
      [] pc = "quality_checker" -> "synthesis"
      [] OTHER -> "quality_checker"

Streaming == entry = "websocket_research"

\* The client closes the connection; the route learns of it at its next send.
disconnect ==
    /\ Streaming
    /\ connected
    /\ pc \notin {"entry", "done", "failed", "closed"}
    /\ connected' = FALSE
    /\ steps_at_disconnect' = steps
    /\ UNCHANGED << pc, GraphState, entry, batch, scraper, sent, response,
                    session >>

\* The body of the async for, up to the progress message; a send on a closed
\* connection raises and ends the route.
send_progress ==
    /\ Streaming
    /\ pc \notin {"entry", "raised", "done", "failed", "closed"}
    /\ Unreported = 1
    /\ IF connected
       THEN /\ sent' = Append(sent, [status |-> "in_progress",
                                     stage |-> LastCompleted])
            /\ UNCHANGED pc
       ELSE /\ pc' = "closed"
            /\ UNCHANGED sent
    /\ UNCHANGED << GraphState, entry, connected, steps_at_disconnect, batch, scraper, response, session >>

\* if node_state.get("research_complete"): store the session, send the result.
send_result ==
    /\ Streaming
    /\ pc = "end"
    /\ Unreported = 0
    /\ session' = [response |-> final_response(0), sources |-> sources]
    /\ IF connected
       THEN /\ sent' = Append(sent, [status |-> "complete",
                                     response |-> final_response(0),
                                     sources |-> sources])
            /\ pc' = "done"
       ELSE /\ pc' = "closed"
            /\ UNCHANGED sent
    /\ UNCHANGED << GraphState, entry, connected, steps_at_disconnect, batch, scraper, response >>

\* except Exception: the graph raised inside astream.
send_error ==
    /\ Streaming
    /\ pc = "raised"
    /\ sent' = IF connected THEN Append(sent, [status |-> "error"]) ELSE sent
    /\ pc' = "failed"
    /\ UNCHANGED << GraphState, entry, connected, steps_at_disconnect, batch, scraper, response, session >>

\* A node of the graph runs; under astream only once the consumer has taken
\* the previous node's update.
graph_step ==
    /\ Streaming => Unreported = 0
    /\ Next

ApiNext ==
    \/ receive_request
    \/ graph_step
    \/ create_research
    \/ refine_research
    \/ research_cli
    \/ disconnect
    \/ send_progress
    \/ send_result
    \/ send_error

ApiSpec == ApiInit /\ [][ApiNext]_vars

\* ====================================================== a subreddit named twice
\* A run whose caller lists one subreddit twice in the configuration's
\* subreddits, which ResearchConfig accepts as it accepts any list of names.
RepeatedSubreddits == <<"cfgsub", "cfgsub">>

CitationInit ==
    /\ pc = "query_planner"
    /\ config = [max_iterations |-> 1, include_reddit |-> TRUE,
                 subreddits |-> RepeatedSubreddits]
    /\ initial_state
    /\ entry = "run_research"
    /\ connected = TRUE
    /\ steps_at_disconnect = -1
    /\ batch = NoBatch
    /\ scraper = NoScrape
    /\ sent = <<>>
    /\ response = EmptyDict
    /\ session = EmptyDict

CitationSpec == CitationInit /\ [][Next]_vars

\* ========================================================= fan-out batches
\* The stages that launch a batch of operations and await asyncio.gather.
FanOutStages == {"multi_source_searcher", "content_scraper", "content_analyzer"}

\* The operations the stage at pc launches: the search coroutines; the page
\* fetches scrape_multiple gathers inside scrape_urls and the thread fetches;
\* the summarization calls (none once iterating scraped_web has raised).
FanOutSize ==
    CASE pc = "multi_source_searcher" ->
             Len(SearchTasks(config.include_reddit, relevant_subreddits))
      [] pc = "content_scraper" ->
             Len(WebUrls(web_results)) + Len(RedditUrls(reddit_posts))
      [] pc = "content_analyzer" ->
             IF scraped_web_content.tag = "dict" THEN 0
             ELSE Len(WebSummaryInputs(scraped_web_content.val))
                  + Len(RedditSummaryInputs(reddit_threads))
      [] OTHER -> 0

\* A run of the one configuration that launches every kind of operation.
BatchInit ==
    /\ Init
    /\ config.include_reddit
    /\ config.subreddits = <<>>

\* The stage creates its coroutines and hands them to asyncio.gather.
launch ==
    /\ pc \in FanOutStages
    /\ batch.at # steps
    /\ batch' = [at |-> steps, launched |-> FanOutSize, running |-> FanOutSize]
    /\ UNCHANGED << pc, GraphState, entry, connected, steps_at_disconnect,
                    scraper, sent, response, session >>

\* One operation of the batch completes or raises, in any order.
settle ==
    /\ batch.at = steps
    /\ batch.running > 0
    /\ batch' = [batch EXCEPT !.running = @ - 1]
    /\ UNCHANGED << pc, GraphState, entry, connected, steps_at_disconnect,
                    scraper, sent, response, session >>

\* Variant of AllSettled that resumes the stage at the first completion.
FirstSettled(b) == b.launched = 0 \/ b.running < b.launched

\* asyncio.gather(*tasks, return_exceptions=True) returns once every awaitable
\* has a result or an exception.
AllSettled(b) == b.running = 0

\* A stage runs to its end and hands over; a fan-out stage does so when its
\* gather has returned.
stage_step ==
    /\ pc \in FanOutStages => (batch.at = steps /\ AllSettled(batch))
    /\ Next

BatchNext ==
    \/ launch
    \/ settle
    \/ stage_step

BatchSpec == BatchInit /\ [][BatchNext]_vars

\* =========================================================== scraping pass
\* The URL selection of content_scraper and WebScraper's page fetches, on
\* result lists longer than the cuts and on page texts longer than the cap.

\* Stands for settings.max_content_length.
MaxContentLength == 3

\* len("...")
EllipsisLen == 3

\* What fetching one URL meets: an HTTP error status, a timeout, a content
\* type that is not HTML, any other exception, or an HTML page whose cleaned
\* text has the given length.
PageFetches ==
    { [kind |-> k, text |-> 0] : k \in {"http_error", "timeout", "non_html", "error"} }
    \cup { [kind |-> "html", text |-> n] : n \in 0..(MaxContentLength + 2) }

\* In the passes explored only the first page fetched varies.
FetchesAt(i) == IF i = 1 THEN PageFetches ELSE { [kind |-> "html", text |-> 1] }

\* cleaned_content[:self.max_content_length] + "..."
Truncated(text) ==
    IF text > MaxContentLength THEN MaxContentLength + EllipsisLen ELSE text

\* WebScraper._empty_result
empty_result(url) ==
    [url |-> url, content |-> 0, content_length |-> 0, success |-> FALSE]

\* WebScraper.scrape_url: texts are held by their length.
scrape_url_result(url, fetch) ==
    IF fetch.kind = "html"
    THEN [url |-> url, content |-> Truncated(fetch.text),
          content_length |-> Truncated(fetch.text), success |-> TRUE]
    ELSE empty_result(url)

\* n web results, numbered in the order returned, the k-th without a URL.
WebResultList(n, k) == [i \in 1..n |-> [url |-> IF i = k THEN 0 ELSE i]]

ScraperWebResults ==
    { WebResultList(n, k) : n \in {0, 1, MaxScrapeUrls + 1},
                            k \in 0..(MaxScrapeUrls + 1) }

\* n posts, the k-th with a comment count at the threshold, not above it.
PostList(n, k) ==
    [i \in 1..n |-> [url |-> 100 + i,
                     num_comments |-> IF i = k THEN MinThreadComments
                                               ELSE MinThreadComments + 1]]

ScraperPosts == { PostList(n, k) : n \in {0, MaxThreadUrls + 1},
                                   k \in 0..(MaxThreadUrls + 1) }

ScraperInit ==
    /\ pc = "content_scraper"
    /\ config \in { c \in Configs : ~c.include_reddit /\ c.max_iterations = 1 }
    /\ initial_state
    /\ entry = "run_research"
    /\ connected = TRUE
    /\ steps_at_disconnect = -1
    /\ batch = NoBatch
    /\ sent = <<>>
    /\ response = EmptyDict
    /\ session = EmptyDict
    /\ scraper \in { [NoScrape EXCEPT !.web_results = w, !.reddit_posts = p] :
                        w \in ScraperWebResults, p \in ScraperPosts }

\* content_scraper: web_urls and reddit_urls
select_urls ==
    /\ scraper.phase = "idle"
    /\ scraper' = [scraper EXCEPT !.phase = "scraping",
                                  !.web_urls = WebUrls(scraper.web_results),
                                  !.reddit_urls = RedditUrls(scraper.reddit_posts)]
    /\ UNCHANGED << pc, GraphState, entry, connected, steps_at_disconnect,
                    batch, sent, response, session >>

\* WebScraper.scrape_url on the next selected URL
scrape_url ==
    /\ scraper.phase = "scraping"
    /\ Len(scraper.results) < Len(scraper.web_urls)
    /\ LET i == Len(scraper.results) + 1 IN
       \E fetch \in FetchesAt(i) :
           scraper' = [scraper EXCEPT !.results =
                          Append(@, scrape_url_result(scraper.web_urls[i], fetch))]
    /\ UNCHANGED << pc, GraphState, entry, connected, steps_at_disconnect,
                    batch, sent, response, session >>

\* ResearchTools.scrape_urls: [r for r in results if r.get("success", False)]
filter_scraped ==
    /\ scraper.phase = "scraping"
    /\ Len(scraper.results) = Len(scraper.web_urls)
    /\ scraper' = [scraper EXCEPT !.phase = "returned",
                                  !.results = SelectSeq(@, Succeeded)]
    /\ UNCHANGED << pc, GraphState, entry, connected, steps_at_disconnect,
                    batch, sent, response, session >>

ScraperNext ==
    \/ select_urls
    \/ scrape_url
    \/ filter_scraped

ScraperSpec == ScraperInit /\ [][ScraperNext]_vars

\* ======================================================================
\* Properties
\* ======================================================================

\* ----------------------------------------------------------------- C1
\* C1: a run executes at most iteration_cap rounds (one round = one pass
\* Retrieval -> ... -> Quality Gate), so the number of Retrieval passes never
\* exceeds max_iterations; with max_iterations = 1 the run stops after round 1.
\* Violated: the gate compares the cap against an iteration counter that is
\* still 0 in round 1, so cap + 1 rounds are run.
C1_RoundsWithinCap == rounds <= config.max_iterations

\* ----------------------------------------------------------------- C2
\* The three-rule reference decision, read off the state the gate saw.
ReferenceStop ==
    \/ iteration >= config.max_iterations
    \/ /\ Len(web_summaries) >= 3
       /\ web_summaries # <<>>
       /\ reddit_summaries # <<>>
       /\ final_synthesis > 500

\* C2: the Quality Gate decision equals the three-rule reference: once the
\* gate has decided, research_complete and the route taken (END or
\* Gap-Filling) are both exactly the reference decision, the cap rule first.
C2_QualityGateDecision ==
    pc \in {"end", "gap_filler"} =>
        /\ research_complete = ReferenceStop
        /\ (pc = "end") = ReferenceStop

\* The gate stopped a run on quality alone, below the cap.
C2_Witness ==
    /\ pc = "end"
    /\ iteration < config.max_iterations
    /\ research_complete
    /\ final_synthesis = MinReportLen + 1

\* ----------------------------------------------------------------- C3
\* C3: a run returns a final state only where research_complete holds or
\* iteration >= max_iterations.
C3_ExitOnlyWhenDone ==
    pc = "end" => (research_complete \/ iteration >= config.max_iterations)

\* A run that returned because the cap was reached.
C3_Witness ==
    /\ pc = "end"
    /\ iteration >= config.max_iterations
    /\ rounds > 1

\* ----------------------------------------------------------------- C4
\* C4: iteration starts at 0, never decreases, is changed by no stage other
\* than Gap-Filling, and grows by exactly 1 each time Gap-Filling hands the
\* run over to another round.
C4_IterationCounter ==
    /\ iteration = 0
    /\ [][iteration' >= iteration]_vars
    /\ [][iteration' # iteration => pc = "gap_filler"]_vars
    /\ [][(pc = "gap_filler" /\ pc' = "multi_source_searcher")
              => iteration' = iteration + 1]_vars

\* Gap-Filling has run once and the next round is about to start.
C4_Witness ==
    /\ pc = "multi_source_searcher"
    /\ iteration = 1
    /\ rounds = 1

\* ----------------------------------------------------------------- C5
\* The launched operations of the last Retrieval batch that raised.
FailedOperations == {i \in DOMAIN search_results : search_results[i].tag = "exc"}

\* C5: whatever subset of the launched Retrieval operations raises, the stage
\* completes without raising; the slot of each failed operation is the empty
\* list and every other slot holds what its own operation returned.
C5_RetrievalDegrades ==
    /\ raised_by # "multi_source_searcher"
    /\ pc = "content_scraper" =>
        LET Returned(i) == IF i \in DOMAIN search_results /\ i \notin FailedOperations
                           THEN search_results[i].val
                           ELSE <<>>
        IN  /\ DOMAIN search_results = DOMAIN search_tasks
            /\ web_results = Returned(1)
            /\ reddit_posts = Returned(2)
            /\ reddit_comments = Returned(3)
            /\ search_tasks[Len(search_tasks)] = "discover_subreddits" =>
                  relevant_subreddits =
                      [i \in DOMAIN Returned(4) |-> Returned(4)[i].name]

\* A batch of four in which the web search raised and the others returned
\* something.
C5_Witness ==
    /\ pc = "content_scraper"
    /\ Len(search_tasks) = 4
    /\ FailedOperations = {1}
    /\ web_results = <<>>
    /\ reddit_posts # <<>>
    /\ reddit_comments # <<>>
    /\ relevant_subreddits # <<>>

\* ----------------------------------------------------------------- C6
\* C6: every operation that fails inside Retrieval appends exactly one entry
\* to the error list, so after a Retrieval pass the list has grown by the
\* number of failed operations.
\* Violated: no stage writes the error list at all.
C6_ErrorsRecordFailures ==
    pc = "content_scraper" =>
        Len(errors) = errors_at_search + Cardinality(FailedOperations)

\* ----------------------------------------------------------------- C7
\* C7: the query Retrieval issues in round r+1 is taken from round r's
\* Gap-Filling output.
\* Violated: Gap-Filling stores refinement_queries, which Retrieval never
\* reads; round r+1 searches with round r's keyword again.
C7_RefinementFeedsRetrieval ==
    (pc = "content_scraper" /\ rounds >= 2 /\ refinement_queries # <<>>) =>
        web_query = refinement_queries[1]

\* ----------------------------------------------------------------- C8
\* C8: when the Gap-Filling reasoning call raises or returns no usable list,
\* the stage still completes and the run goes on to the next round: the run
\* is never aborted by Gap-Filling.
\* Violated: the call is made outside any handler, so its exception ends the
\* run.
C8_GapFillingNeverAborts == raised_by # "gap_filler"

\* ----------------------------------------------------------------- C9
\* The Consensus stage has just run: it completed, or it raised.
ConsensusJustRan ==
    \/ pc = "cross_reference"
    \/ pc = "raised" /\ raised_by = "consensus_builder"

\* The stored consensus is the neutral default; the two opinion fields are
\* empty where the record has them.
NeutralConsensusStored ==
    /\ community_consensus # EmptyDict
    /\ community_consensus.sentiment = "neutral"
    /\ community_consensus.agreement_level = "unknown"
    /\ community_consensus.themes = <<>>
    /\ "majority_opinion" \in DOMAIN community_consensus =>
           community_consensus.majority_opinion = ""
    /\ "minority_opinions" \in DOMAIN community_consensus =>
           community_consensus.minority_opinions = <<>>

\* Some retrieved comment passes the expert filter (score > 10, body > 100).
HighValueCommentRetrieved ==
    \E i \in DOMAIN reddit_comments :
        reddit_comments[i].score > 10 /\ reddit_comments[i].body > 100

C10_OnlySynthesisRaises == raised_by \in {"none", "synthesis"}

\* ---------------------------------------------------------------- C11
\* The latest consensus or cross-reference completion was not JSON, or was
\* JSON that is not an object.
UnparsableReply == reasoning_reply \in {"text", "list"}

\* C11: when the reply of the Consensus or Cross-Reference reasoning call
\* cannot be parsed into the expected record, the stage does not raise and
\* stores its default: agreement level "unknown" with empty lists for
\* Consensus, confidence "medium" with empty lists for Cross-Reference.
\* Violated: only a reply that is not JSON gets the default; a JSON reply that
\* is a list is handed on as it is and the node's .get on it raises.
C11_UnparsableReplyGivesDefault ==
    /\ (UnparsableReply /\ reasoning_calls.expert = 0) =>
           raised_by \notin {"consensus_builder", "cross_reference"}
    /\ (UnparsableReply /\ pc = "cross_reference") =>
           /\ community_consensus.agreement_level = "unknown"
           /\ community_consensus.themes = <<>>
           /\ community_consensus.minority_opinions = <<>>
    /\ (UnparsableReply /\ pc = "synthesis") =>
           /\ cross_reference.overall_confidence = "medium"
           /\ cross_reference.corroborated_facts = <<>>
           /\ cross_reference.contradictions = <<>>
           /\ cross_reference.unique_insights = <<>>

\* ---------------------------------------------------------------- C12
\* C12: an empty report from Synthesis is fatal: once the Quality Gate has
\* decided, neither a normal return nor another round follows a Synthesis
\* that produced the empty string.
\* Violated: the empty string is stored like any report; the gate only
\* measures its length, so the run continues with Gap-Filling, or returns
\* normally with the empty report once the cap is reached.
C12_EmptyReportIsFatal ==
    pc \in {"end", "gap_filler"} => final_synthesis > 0

\* ---------------------------------------------------------------- C14
\* C14: a configuration whose iteration cap is <= 0 is rejected on every
\* entry path and no Retrieval stage is executed for it: such a request never
\* gets past the entry, whichever path it came by.
\* Violated: only create_research validates the cap; the websocket route, the
\* command line and run_research start the graph with it.
C14_NonPositiveCapRejected ==
    config.max_iterations <= 0 => (pc \in {"entry", "rejected"} /\ rounds = 0)

\* ---------------------------------------------------------------- C15
\* Round 1 has reached the Quality Gate's decision with community search off
\* and every web result retrieved, scraped and summarized.
FirstRoundAllSucceeded ==
    /\ pc \in {"end", "gap_filler"}
    /\ rounds = 1
    /\ ~config.include_reddit
    /\ Len(web_results) = MaxWeb
    /\ scraped_web_content = ListVal([i \in 1..MaxWeb |-> Page(i, 1, TRUE)])
    /\ Len(web_summaries) = MaxWeb
    /\ final_synthesis > 0

\* C15: with iteration cap 1, community search disabled and k web results
\* that all scrape and summarize, the run ends after exactly one round with
\* research_complete = true, k citations and an empty error list.
\* Violated: in round 1 iteration is 0, below the cap, and without community
\* summaries the quality rule fails, so the gate sends the run to Gap-Filling
\* and a second round.
C15_OneRoundEndToEnd ==
    (FirstRoundAllSucceeded /\ config.max_iterations = 1) =>
        /\ pc = "end"
        /\ research_complete
        /\ Len(sources) = MaxWeb
        /\ errors = <<>>

\* ---------------------------------------------------------------- C16
\* Every field of ResearchState but research_complete.
FieldsButResearchComplete ==
    << config, iteration, errors, PlanState, web_results, reddit_posts,
       reddit_comments, ScrapeState, SummaryState, ConsensusState,
       CrossRefState, SynthesisState, refinement_queries >>

\* C16 as stated: evaluating the Quality Gate leaves every field of
\* ResearchState unchanged.  Violated: quality_checker stores its decision in
\* research_complete.
C16_GateLeavesStateUnchanged ==
    [][pc = "quality_checker" =>
           UNCHANGED << FieldsButResearchComplete, research_complete >>]_vars

\* C16: evaluating the Quality Gate is deterministic and idempotent, and it
\* writes one field only: the stage sets research_complete to the decision the
\* rule gives on the other fields, leaves every other field of ResearchState
\* unchanged, and the rule evaluated again on the state it leaves gives the
\* decision that was stored and routed on.
C16_GateWritesOnlyItsDecision ==
    [][pc = "quality_checker" =>
           /\ UNCHANGED FieldsButResearchComplete
           /\ research_complete' = ReferenceStop'
           /\ (pc' = "end") = ReferenceStop']_vars

\* The gate was evaluated twice in one run and decided differently: it left
\* research_complete false in round 1 and set it in round 2.
C16_Witness ==
    /\ pc = "end"
    /\ rounds = 2
    /\ research_complete
    /\ iteration = 1

\* ---------------------------------------------------------------- C17
\* The stages of the progress messages sent so far, in the order sent.
RECURSIVE StagesReported(_)
StagesReported(msgs) ==
    IF msgs = <<>> THEN <<>>
    ELSE IF IsProgress(msgs[1])
         THEN <<msgs[1].stage>> \o StagesReported(Tail(msgs))
         ELSE StagesReported(Tail(msgs))

\* C17: a streaming run that has delivered its final event has sent one
\* progress event per completed stage, the final event is the last message,
\* and its payload is the report text and the source list of the final state
\* run returns.
\* Violated: the final event's report is read from the key "final_response",
\* which no stage writes, so it is the empty default while the final state
\* holds the report in final_synthesis.
C17_FinalEventCarriesRunPayload ==
    (Streaming /\ pc = "done") =>
        /\ Len(StagesReported(sent)) = steps
        /\ sent[Len(sent)].status = "complete"
        /\ sent[Len(sent)].sources = sources
        /\ sent[Len(sent)].response = final_synthesis

\* ---------------------------------------------------------------- C18
\* C18: once the caller has closed the connection of a streaming run, no
\* further stage executes and no session is stored for the run.
\* Violated: the route never watches the connection; it learns of the close
\* only when its next send fails, so the stage then due runs to completion
\* (the Synthesis stage included), and the final branch stores the session
\* before it sends the final event.
C18_CancelStopsTheRun ==
    ~connected =>
        /\ steps = steps_at_disconnect
        /\ session = EmptyDict

\* ---------------------------------------------------------------- C20
\* What the caller of a failed run was given: the last websocket message, the
\* HTTP response or the command line's output.
DeliveredOnFailure == IF Streaming THEN sent[Len(sent)] ELSE response

\* C20: when a run fails after sources were gathered, the caller receives an
\* error classification together with the source list gathered before the
\* failure.
\* Violated: every entry path answers a failure with the error alone; the
\* state the failed run had built, its source list included, is dropped.
C20_FailureCarriesPartialSources ==
    (pc = "failed" /\ connected /\ sources # <<>>) =>
        /\ DeliveredOnFailure.status = "error"
        /\ "sources" \in DOMAIN DeliveredOnFailure
        /\ DeliveredOnFailure.sources = sources

\* ---------------------------------------------------------------- C21
\* The stage named after each stage that has a single successor.
FixedSuccessor(stage) ==
    CASE stage = "query_planner" -> "multi_source_searcher"
      [] stage = "multi_source_searcher" -> "content_scraper"
      [] stage = "content_scraper" -> "content_analyzer"
      [] stage = "content_analyzer" -> "consensus_builder"
      [] stage = "consensus_builder" -> "cross_reference"
      [] stage = "cross_reference" -> "synthesis"
      [] stage = "synthesis" -> "quality_checker"
      [] stage = "gap_filler" -> "multi_source_searcher"
      [] OTHER -> "none"

\* C21: the stages run in the fixed order Retrieval, Scraping, Analysis,
\* Consensus, Cross-Reference, Synthesis, Quality Gate: a stage that completes
\* hands over to its one successor whatever the state is (a stage that raises
\* ends the run); the query planner runs once, before the first Retrieval;
\* Gap-Filling is entered only from a Quality Gate that decided to continue and
\* hands over to Retrieval; only after the Quality Gate does the next stage
\* depend on the state.
C21_FixedStageOrder ==
    [][/\ pc # "quality_checker" => pc' \in {FixedSuccessor(pc), "raised"}
       /\ pc = "quality_checker" =>
              pc' = (IF research_complete' \/ iteration >= config.max_iterations
                     THEN "end" ELSE "gap_filler")
       /\ pc' # "query_planner"
       /\ pc = "query_planner" => (steps = 0 /\ rounds = 0)
       /\ pc' = "gap_filler" => (pc = "quality_checker" /\ ~research_complete')
       /\ pc' = "multi_source_searcher" =>
              (IF rounds = 0 THEN pc = "query_planner" ELSE pc = "gap_filler")
      ]_vars

\* A second round is under way: Gap-Filling ran after a gate that continued
\* and handed over to Retrieval, which handed over to Scraping.
C21_Witness ==
    /\ pc = "content_scraper"
    /\ rounds = 2
    /\ iteration = 1

\* ---------------------------------------------------------------- C22
\* C22: while any operation of a fan-out batch (Retrieval, Scraping, Analysis)
\* is still running, the stage that launched it has not handed over: no step
\* of the graph has been taken since the launch, so no operation of a later
\* stage has started.
C22_BatchBarrier ==
    batch.running > 0 => (batch.at = steps /\ pc \in FanOutStages)

\* Analysis has been reached after a Scraping batch of several operations, all
\* of which have settled.
C22_Witness ==
    /\ pc = "content_analyzer"
    /\ batch.at = steps - 1
    /\ batch.launched > 1
    /\ batch.running = 0

\* ---------------------------------------------------------------- C23
\* What the operation of the given kind handed back in the last Retrieval
\* batch: its list, or the empty list when it raised or was not launched.
ResultOf(kind) ==
    LET at == {i \in DOMAIN search_tasks : search_tasks[i] = kind}
    IN  IF at = {} THEN <<>>
        ELSE LET i == CHOOSE j \in at : TRUE
             IN  IF search_results[i].tag = "exc" THEN <<>>
                 ELSE search_results[i].val

\* C23: after each Retrieval, whatever the source toggles, web_results is the
\* web search's result of this round, reddit_posts the post search's and
\* reddit_comments the comment search's (both empty when community search is
\* off); the discovery's result is in none of the three; nothing of an
\* earlier round is kept.
C23_SlotsHoldTheirOwnResult ==
    pc = "content_scraper" =>
        /\ web_results = ResultOf("web_search")
        /\ reddit_posts = ResultOf("reddit_post_search")
        /\ reddit_comments = ResultOf("reddit_comment_search")
        /\ ~config.include_reddit => (reddit_posts = <<>> /\ reddit_comments = <<>>)
        /\ \A found \in DiscoverResults \ {<<>>} :
               found \notin {web_results, reddit_posts, reddit_comments}

\* A second Retrieval with all four operations launched: the discovery found
\* a community, the comment search returned, the web search came back empty.
C23_Witness ==
    /\ pc = "content_scraper"
    /\ rounds = 2
    /\ Len(search_tasks) = 4
    /\ ResultOf("discover_subreddits") # <<>>
    /\ reddit_comments # <<>>
    /\ web_results = <<>>

\* ---------------------------------------------------------------- C24
\* C24: after each Scraping stage scraped_web_content is a list of web-page
\* scrape records, empty when there was no web URL to fetch, and every thread
\* stored in reddit_threads is a thread of one of this round's eligible posts.
\* Violated: the first result of the batch is taken for the web scrape even
\* when no web scrape was launched, so with no web URL the first thread fetch
\* is stored as scraped_web_content and is missing from reddit_threads.
C24_ScrapeSlotsByKind ==
    pc = "content_analyzer" =>
        /\ scraped_web_content.tag = "list"
        /\ WebUrls(web_results) = <<>> => scraped_web_content = ListVal(<<>>)
        /\ \A i \in DOMAIN reddit_threads :
               \E j \in DOMAIN RedditUrls(reddit_posts) :
                   reddit_threads[i].post.url = RedditUrls(reddit_posts)[j]

\* ---------------------------------------------------------------- C25
\* C25: every web summary carries the URL of the scraped item whose content
\* was summarized, and every community summary the URL of the thread whose
\* text was summarized (a summary is identified by the item it was made from).
\* Violated: summaries are numbered over the items that have content, but the
\* title and URL are read from the unfiltered scraped list at the same index,
\* so after a scraped item with empty content every web summary carries the
\* title and URL of an earlier item.
C25_SummaryCarriesItsOwnSource ==
    pc = "consensus_builder" =>
        /\ \A i \in DOMAIN web_summaries :
               web_summaries[i].url = web_summaries[i].summary
        /\ \A i \in DOMAIN reddit_summaries :
               reddit_summaries[i].url = reddit_summaries[i].summary

\* ---------------------------------------------------------------- C26
\* The items of inputs whose call, numbered from offset + 1 in the batch,
\* returned a summary; in input order.
RECURSIVE Summarized(_, _, _)
Summarized(inputs, outcomes, offset) ==
    IF inputs = <<>> THEN <<>>
    ELSE (IF outcomes[offset + 1].tag = "exc" THEN <<>> ELSE <<Head(inputs)>>)
         \o Summarized(Tail(inputs), outcomes, offset + 1)

\* What each summary of a list was made from.
SummarizedItems(summaries) == [i \in DOMAIN summaries |-> summaries[i].summary]

\* C26: when Analysis runs on a list of scraped items, it hands over to
\* Consensus whatever summarization calls fail, and for the outcomes of its
\* calls web_summaries holds exactly one summary, tagged web, for each web item
\* whose call succeeded and reddit_summaries one, tagged reddit, for each
\* thread whose call succeeded, both in input order.
C26_FailedSummaryDropsOnlyItself ==
    [][(pc = "content_analyzer" /\ scraped_web_content.tag = "list") =>
           LET web_inputs == WebSummaryInputs(scraped_web_content.val)
               reddit_inputs == RedditSummaryInputs(reddit_threads)
           IN  /\ pc' = "consensus_builder"
               /\ \E outcomes \in GatherSummaries(web_inputs \o reddit_inputs) :
                      /\ SummarizedItems(web_summaries') =
                             Summarized(web_inputs, outcomes, 0)
                      /\ SummarizedItems(reddit_summaries') =
                             Summarized(reddit_inputs, outcomes, Len(web_inputs))
               /\ \A i \in DOMAIN web_summaries' :
                      web_summaries'[i].source_type = "web"
               /\ \A i \in DOMAIN reddit_summaries' :
                      reddit_summaries'[i].source_type = "reddit"
      ]_vars

\* Every scraped page had content, the first summarization call failed, and
\* the summaries of the other pages and of a thread were kept.
C26_Witness ==
    /\ pc = "consensus_builder"
    /\ scraped_web_content = ListVal([i \in 1..MaxWeb |-> Page(i, 1, TRUE)])
    /\ SummarizedItems(web_summaries) = [i \in 1..(MaxWeb - 1) |-> i + 1]
    /\ reddit_summaries # <<>>

\* ---------------------------------------------------------------- C27
\* Analysis is about to run on a list in which no scraped item has content,
\* and there is no thread.
NothingToSummarize ==
    /\ pc = "content_analyzer"
    /\ scraped_web_content.tag = "list"
    /\ \A i \in DOMAIN scraped_web_content.val :
           scraped_web_content.val[i].content = 0
    /\ reddit_threads = <<>>

\* C27: when Analysis has no item to summarize it hands over with both
\* summary lists empty, whatever an earlier round left in them, and the batch
\* of summarization calls it would gather is empty.
C27_EmptyAnalysisShortCircuits ==
    [][NothingToSummarize =>
           /\ pc' = "consensus_builder"
           /\ web_summaries' = <<>>
           /\ reddit_summaries' = <<>>
           /\ WebSummaryInputs(scraped_web_content.val)
                  \o RedditSummaryInputs(reddit_threads) = <<>>
      ]_vars

\* A second round found nothing to summarize after a first round whose
\* summaries had gone into the source list.
C27_Witness ==
    /\ pc = "consensus_builder"
    /\ rounds = 2
    /\ scraped_web_content = ListVal(<<>>)
    /\ reddit_threads = <<>>
    /\ web_summaries = <<>>
    /\ reddit_summaries = <<>>
    /\ Len(sources) = MaxWeb

\* ---------------------------------------------------------------- C28
\* What a thread fetch that failed hands back: a thread without a post.
FailedThreadFetch == DictVal(Thread(NoPost))

\* C28: Scraping never raises and adds no error, a failed page fetch or thread
\* fetch appears neither in scraped_web_content nor in reddit_threads, and
\* every item of scraped_web_content is a successful fetch of one of this
\* round's web URLs.
\* Violated: with no web URL the first thread fetch is read as the web scrape,
\* so the empty thread a failed fetch hands back becomes scraped_web_content.
C28_ScrapeFailuresFiltered ==
    /\ raised_by # "content_scraper"
    /\ pc = "content_analyzer" =>
           /\ errors = <<>>
           /\ scraped_web_content # FailedThreadFetch
           /\ \A i \in DOMAIN reddit_threads : reddit_threads[i].post # NoPost
           /\ scraped_web_content.tag = "list" =>
                  \A i \in DOMAIN scraped_web_content.val :
                      /\ scraped_web_content.val[i].success
                      /\ \E j \in DOMAIN WebUrls(web_results) :
                             scraped_web_content.val[i].url = WebUrls(web_results)[j]

\* ---------------------------------------------------------------- C29
\* C29: the content of every successfully scraped page is no longer than the
\* configured maximum content length, and content_length is its length.
\* Violated: a text over the cap is cut to the cap and "..." is appended, so
\* the content returned is three characters longer than the cap.
C29_ContentWithinCap ==
    \A i \in DOMAIN scraper.results :
        scraper.results[i].success =>
            /\ scraper.results[i].content <= MaxContentLength
            /\ scraper.results[i].content_length = scraper.results[i].content

\* ---------------------------------------------------------------- C30
\* The positions, among the first howmany items, of those that pass.
Among(items, howmany, Passes(_)) ==
    { i \in DOMAIN items : i <= howmany /\ Passes(items[i]) }

\* C30: the Scraping stage selects at most 10 web pages, the URLs of those of
\* the first 10 web results that have one, in the order returned, and at most
\* 5 threads, those of the first 5 posts whose comment count is above 10.
C30_ScrapeSelectionCaps ==
    scraper.phase # "idle" =>
        LET HasAUrl(r) == r.url # 0
            Busy(p) == p.url # 0 /\ p.num_comments > 10
            pages == Among(scraper.web_results, 10, HasAUrl)
            threads == Among(scraper.reddit_posts, 5, Busy)
        IN  /\ Len(scraper.web_urls) <= 10
            /\ Len(scraper.reddit_urls) <= 5
            /\ Len(scraper.web_urls) = Cardinality(pages)
            /\ Len(scraper.reddit_urls) = Cardinality(threads)
            /\ \A j \in DOMAIN scraper.web_urls :
                   /\ \E i \in pages : scraper.web_results[i].url = scraper.web_urls[j]
                   /\ j > 1 => scraper.web_urls[j - 1] < scraper.web_urls[j]
            /\ \A j \in DOMAIN scraper.reddit_urls :
                   \E i \in threads :
                       scraper.reddit_posts[i].url = scraper.reddit_urls[j]

\* Eleven web results, the first without a URL, and six posts, one of the
\* first five at the threshold: nine pages and four threads are selected.
C30_Witness ==
    /\ scraper.phase = "returned"
    /\ Len(scraper.web_results) = MaxScrapeUrls + 1
    /\ scraper.web_results[1].url = 0
    /\ Len(scraper.web_urls) = MaxScrapeUrls - 1
    /\ Len(scraper.reddit_posts) = MaxThreadUrls + 1
    /\ Len(scraper.reddit_urls) = MaxThreadUrls - 1

\* ---------------------------------------------------------------- C31
\* C31: after Synthesis the citation list has exactly one entry per summary of
\* the round, the web summaries' entries first and then the community
\* summaries', each group in the order of its summary list, with no two
\* entries for the same source; and the confidence summary counts as many web
\* and community sources as there are summaries of each kind.
\* Violated: the list is built from the summaries as they come and nothing
\* removes a repeat, so a thread that the post search returned twice (its
\* subreddit being named twice) is fetched, summarized and cited twice.
C31_CitationList ==
    pc = "quality_checker" =>
        LET nweb == Len(web_summaries) IN
        /\ Len(sources) = nweb + Len(reddit_summaries)
        /\ \A i \in DOMAIN web_summaries :
               sources[i] = [type |-> "web", url |-> web_summaries[i].url]
        /\ \A i \in DOMAIN reddit_summaries :
               sources[nweb + i] =
                   [type |-> "reddit", url |-> reddit_summaries[i].url]
        /\ \A i, j \in DOMAIN sources :
               i # j => sources[i].url # sources[j].url
        /\ confidence_scores.web_sources = nweb
        /\ confidence_scores.reddit_sources = Len(reddit_summaries)

\* ---------------------------------------------------------------- C32
\* The Retrieval batch just launched holds a community discovery.
DiscoveryIssued(tasks) ==
    \E i \in DOMAIN tasks : tasks[i] = "discover_subreddits"

\* C32 as stated: community discovery is issued in a round if and only if
\* community search is enabled and the caller configured no target
\* communities.  Violated: once a round's discovery has found communities
\* they are the run's targets, and the later rounds of the same run issue no
\* discovery although the caller configured none.
C32_DiscoveryIffNoneConfigured ==
    [][pc = "multi_source_searcher" =>
           (DiscoveryIssued(search_tasks') <=>
                (config.include_reddit /\ config.subreddits = <<>>))]_vars

\* C32: community discovery is issued in a round if and only if community
\* search is enabled and the run has no target communities when the round
\* starts (none configured by the caller, none suggested by the planner, none
\* found by an earlier round's discovery); when the caller configured
\* communities, discovery is never issued and the target list stays the
\* configured one; a target list that is not empty is never replaced.
C32_DiscoveryIffNoTargets ==
    [][pc = "multi_source_searcher" =>
           /\ DiscoveryIssued(search_tasks') <=>
                  (config.include_reddit /\ relevant_subreddits = <<>>)
           /\ config.subreddits # <<>> =>
                  /\ ~DiscoveryIssued(search_tasks')
                  /\ relevant_subreddits' = config.subreddits
           /\ relevant_subreddits # <<>> =>
                  relevant_subreddits' = relevant_subreddits
      ]_vars

\* Round 2 of a run whose caller configured no community: round 1's discovery
\* found one, so round 2 searched it and issued no discovery.
C32_Witness ==
    /\ pc = "content_scraper"
    /\ rounds = 2
    /\ config.include_reddit
    /\ config.subreddits = <<>>
    /\ relevant_subreddits = <<"found">>
    /\ ~DiscoveryIssued(search_tasks)

\* ---------------------------------------------------------------- C33
\* C33: the report text delivered to the caller is the report text Synthesis
\* stored in the final state of the run: in the HTTP response and on the
\* command line, in the final event of a streaming run, and in the response
\* and the stored session of a refinement.
\* Violated: every path reads the report from the key "final_response", which
\* no stage writes, so the caller gets the default (the empty string, or the
\* command line's "No response generated") while the report sits in
\* final_synthesis.
C33_DeliveredReportIsSynthesis ==
    /\ (pc = "done" /\ entry \in {"create_research", "research_cli"}) =>
           response.response = final_synthesis
    /\ (pc = "done" /\ Streaming) =>
           sent[Len(sent)].response = final_synthesis
    /\ pc = "refined" =>
           /\ response.response = final_synthesis
           /\ session.response = final_synthesis

\* ---------------------------------------------------------------- C35
\* What a cross-reference record lists under the given key; nothing when the
\* record is empty.
Listed(cross_ref, key) == IF cross_ref = EmptyDict THEN <<>> ELSE cross_ref[key]

\* C35: after Synthesis, in any round, the corroborated facts and the
\* contradictions of the state are those of the cross-reference record of the
\* same round, and the confidence summary's corroboration count is the number
\* of that record's corroborated facts; with an empty record all three are
\* empty or zero.
\* Violated: with no summaries Cross-Reference stores the empty record and
\* returns before it writes the two lists, so the facts and contradictions of
\* the round before stay in the state and Synthesis counts them.
C35_CrossReferenceOfThisRound ==
    pc = "quality_checker" =>
        /\ corroborated_facts = Listed(cross_reference, "corroborated_facts")
        /\ contradictions = Listed(cross_reference, "contradictions")
        /\ confidence_scores.corroboration =
               Len(Listed(cross_reference, "corroborated_facts"))

\* ---------------------------------------------------------------- C36
\* C36: with community search disabled no post is retrieved and the
\* community-summary list is empty in every round, so the quality rule is
\* never satisfied: research_complete is set, and the run returns, only with
\* the iteration counter at the cap, whatever the web results and the
\* report's length.
C36_NoCommunityNoQualityStop ==
    ~config.include_reddit =>
        /\ reddit_posts = <<>>
        /\ reddit_threads = <<>>
        /\ reddit_summaries = <<>>
        /\ research_complete => iteration >= config.max_iterations
        /\ pc = "end" => iteration >= config.max_iterations

\* Community search is off; round 1 gave enough web summaries and a report
\* above the minimum length, and the gate still sent the run to Gap-Filling.
C36_Witness ==
    /\ ~config.include_reddit
    /\ pc = "gap_filler"
    /\ iteration = 0
    /\ ~research_complete
    /\ Len(web_summaries) >= MinWebSources
    /\ final_synthesis > MinReportLen

\* ---------------------------------------------------------------- C37
\* C37: the route taken after the Quality Gate agrees with the flag the gate
\* has just set: the run is at END exactly when research_complete is true and
\* at Gap-Filling exactly when it is false, so every final state returned
\* normally has research_complete = true and Gap-Filling never runs in a
\* state with research_complete = true.
C37_RouteAgreesWithFlag ==
    /\ pc = "end" => research_complete
    /\ pc = "gap_filler" => ~research_complete
    /\ pc \in {"end", "gap_filler"} => ((pc = "end") <=> research_complete)

\* The gate left the flag false on a report of exactly the minimum length and
\* the run went on to Gap-Filling.
C37_Witness ==
    /\ pc = "gap_filler"
    /\ ~research_complete
    /\ iteration = 0
    /\ final_synthesis = MinReportLen
    /\ reddit_summaries # <<>>
    /\ Len(web_summaries) >= MinWebSources

\* ---------------------------------------------------------------- C38
\* C38: every session in the session store, whichever route stored it, holds
\* the original query and the source list, and no refinement of it fails on
\* the shape of the stored record.
\* Violated: the streaming route stores only the final event's result, a
\* record of response and sources without the query, and refine_research
\* reads the query by subscript, so refining a streamed session ends in a
\* KeyError answered with status 500.
C38_StoredSessionsCanBeRefined ==
    /\ session # EmptyDict =>
           /\ "query" \in DOMAIN session
           /\ "sources" \in DOMAIN session
    /\ pc = "refine_failed" => response.detail # "KeyError"

====
